---- MODULE Spec2Model ----
(***************************************************************************)
(* Model of scripts/stokes_calculator.py: the centrifuge separation        *)
(* calculator (Stokes velocity, Richardson-Zaki hindered settling,         *)
(* Arrhenius viscosity, Langmuir coverage and the efficiency pipeline).    *)
(*                                                                         *)
(* Python floats are modelled as decimal floating-point numbers            *)
(* [m, e] = m * 10^e with a four-digit significand, every arithmetic       *)
(* operation rounded to nearest (ties to even) exactly as an IEEE          *)
(* operation is, and an unbounded exponent: the model has the rounding of  *)
(* the code's arithmetic, at a coarser precision, and not its overflow.    *)
(***************************************************************************)
EXTENDS Integers, Sequences, FiniteSets, TLC

(***************************************************************************)
(* Floating-point arithmetic (Python float: + - * / abs min max round).    *)
(***************************************************************************)
MantMin == 10 ^ 3
MantMax == 10 ^ 4

Zero == [m |-> 0, e |-> 0]

Abs(n) == IF n < 0 THEN -n ELSE n

Sign(n) == IF n < 0 THEN -1 ELSE IF n > 0 THEN 1 ELSE 0

\* n / d rounded to the nearest integer, ties to even (n >= 0, d > 0)
RoundDiv(n, d) ==
    LET q == n \div d
        r == n % d
    IN IF 2 * r > d \/ (2 * r = d /\ q % 2 = 1) THEN q + 1 ELSE q

NumDigits(a) ==
    IF a < 10 THEN 1 ELSE IF a < 100 THEN 2 ELSE IF a < 1000 THEN 3
    ELSE IF a < 10000 THEN 4 ELSE IF a < 100000 THEN 5
    ELSE IF a < 1000000 THEN 6 ELSE IF a < 10000000 THEN 7
    ELSE IF a < 100000000 THEN 8 ELSE IF a < 1000000000 THEN 9 ELSE 10

\* the float nearest to the exact value m * 10^e
Norm(m, e) ==
    LET a == Abs(m)
        k == NumDigits(a) - 4
    IN IF a = 0 THEN Zero
       ELSE IF k > 0
            THEN LET q == RoundDiv(a, 10 ^ k)
                 IN IF q = MantMax
                    THEN [m |-> Sign(m) * MantMin, e |-> e + k + 1]
                    ELSE [m |-> Sign(m) * q, e |-> e + k]
            ELSE [m |-> m * 10 ^ (-k), e |-> e + k]

\* a float literal: F(65, 0) is 65.0, F(8, -3) is 0.008
F(m, e) == Norm(m, e)

One == F(1, 0)

FNeg(a) == [m |-> -a.m, e |-> a.e]

FAbs(a) == [m |-> Abs(a.m), e |-> a.e]

FMul(a, b) == Norm(a.m * b.m, a.e + b.e)

\* a / b for b # 0 (Python raises ZeroDivisionError for b = 0)
FDiv(a, b) ==
    LET n == Abs(a.m)
        d == Abs(b.m)
        s == Sign(a.m) * Sign(b.m)
    IN IF n = 0 THEN Zero
       ELSE IF n >= d
            THEN Norm(s * RoundDiv(n * 1000, d), a.e - b.e - 3)
            ELSE Norm(s * RoundDiv(n * 10000, d), a.e - b.e - 4)

FAdd(a, b) ==
    IF a.m = 0 THEN b
    ELSE IF b.m = 0 THEN a
    ELSE LET hi == IF a.e >= b.e THEN a ELSE b
             lo == IF a.e >= b.e THEN b ELSE a
             diff == hi.e - lo.e
         IN IF diff > 5 THEN hi
            ELSE Norm(hi.m * 10 ^ diff + lo.m, lo.e)

FSub(a, b) == FAdd(a, FNeg(b))

\* a < b: by sign, then by exponent, then by significand
FLt(a, b) ==
    IF Sign(a.m) # Sign(b.m) \/ a.e = b.e THEN a.m < b.m
    ELSE IF a.m > 0 THEN a.e < b.e
    ELSE a.e > b.e

FLe(a, b) == a = b \/ FLt(a, b)

FGt(a, b) == FLt(b, a)

FGe(a, b) == FLe(b, a)

\* Python max(a, b): a unless b > a;  min(a, b): a unless b < a
FMax(a, b) == IF FGt(b, a) THEN b ELSE a

FMin(a, b) == IF FLt(b, a) THEN b ELSE a

\* Python round(x, nd): to nd decimals, ties to even
FRound(x, nd) ==
    LET k == -nd - x.e
    IN IF x.m = 0 \/ k <= 0 THEN x
       ELSE IF k > 4 THEN Zero
       ELSE Norm(Sign(x.m) * RoundDiv(Abs(x.m), 10 ^ k), -nd)

(***************************************************************************)
(* math.exp, math.pi and float ** float.                                   *)
(***************************************************************************)
Pi == F(3142, -3)

FixScale == 10 ^ 4
Ln10Fix6 == 2302585
Ln10Fix4 == 23026
Ln2Fix4 == 6931

\* |x| as a fixed-point integer with six decimals (|x| < 2000)
ToFix6(x) ==
    LET k == x.e + 6
    IN IF k >= 0 THEN Abs(x.m) * 10 ^ k
       ELSE IF k < -9 THEN 0
       ELSE Abs(x.m) \div 10 ^ (-k)

RECURSIVE TaylorSum(_, _, _)
\* term + term*r/n + term*r^2/(n(n+1)) + ... in fixed point
TaylorSum(term, r, n) ==
    IF term = 0 THEN 0
    ELSE term + TaylorSum((term * r) \div (n * FixScale), r, n + 1)

\* exp of a fixed-point X >= 0: 10^k * exp(r), X = k ln 10 + r
ExpPos(X) ==
    LET k == X \div Ln10Fix6
        r == (X % Ln10Fix6) \div 100
    IN Norm(TaylorSum(FixScale, r, 1), k - 4)

\* math.exp(x) for x <= 709.78 (above, math.exp raises OverflowError);
\* below -745.13 the result underflows to 0.0
FExp(x) ==
    IF x.m = 0 THEN One
    ELSE IF x.m > 0 THEN ExpPos(ToFix6(x))
    ELSE IF FLt(x, F(-745, 0)) THEN Zero
    ELSE FDiv(One, ExpPos(ToFix6(x)))

\* ln b for b >= 1
LnGe1(b) ==
    LET Y == b.m * 10
        j == IF Y >= 80000 THEN 3 ELSE IF Y >= 40000 THEN 2
             ELSE IF Y >= 20000 THEN 1 ELSE 0
        T == Y \div 2 ^ j
        Z == ((T - FixScale) * FixScale) \div (T + FixScale)
        Z2 == (Z * Z) \div FixScale
        Z3 == (Z * Z2) \div FixScale
        Z5 == (Z3 * Z2) \div FixScale
        Z7 == (Z5 * Z2) \div FixScale
        Z9 == (Z7 * Z2) \div FixScale
        L == 2 * (Z + Z3 \div 3 + Z5 \div 5 + Z7 \div 7 + Z9 \div 9)
    IN Norm(L + j * Ln2Fix4 + (b.e + 3) * Ln10Fix4, -4)

FLn(b) == IF FGe(b, One) THEN LnGe1(b) ELSE FNeg(LnGe1(FDiv(One, b)))

\* b ** n for b >= 0 and n > 0
FPow(b, n) == IF b.m = 0 THEN Zero ELSE FExp(FMul(n, FLn(b)))

(***************************************************************************)
(* Records and their defaults (FeedProperties, EquipmentConfig,            *)
(* OperatingConditions).                                                   *)
(***************************************************************************)
G == F(981, -2)

FeedProperties ==
    [water_fraction |-> F(75, -2), oil_fraction |-> F(20, -2),
     solids_fraction |-> F(5, -2),
     water_density |-> F(1000, 0), oil_density |-> F(890, 0),
     solids_density |-> F(2650, 0),
     oil_droplet_d50 |-> F(25, 0), solids_d50 |-> F(80, 0),
     oil_viscosity |-> F(50, 0), viscosity_temp_coeff |-> F(25, -3),
     emulsion_stability |-> F(3, -1), interfacial_tension |-> F(25, 0),
     demulsifier_dose |-> F(50, 0), demulsifier_eff |-> F(7, -1),
     flocculant_dose |-> Zero, flocculant_eff |-> F(8, -1),
     max_packing_fraction |-> F(64, -2), hindered_settling_exp |-> F(465, -2),
     oil_sphericity |-> One, solids_sphericity |-> F(8, -1),
     salinity |-> F(35000, 0)]

EquipmentConfig ==
    [bowl_diameter |-> F(400, 0), bowl_length |-> F(1100, 0),
     max_rpm |-> F(5000, 0), min_rpm |-> F(1500, 0), max_flow |-> F(15, 0)]

OperatingConditions ==
    [temperature |-> F(65, 0), bowl_speed |-> F(3500, 0),
     feed_flow |-> F(12, 0)]

(***************************************************************************)
(* Core calculations.                                                      *)
(***************************************************************************)
\* math.exp raises OverflowError above 709.78
ExpRaises(x) == FGt(x, F(7098, -1))

\* the exponent of the Arrhenius correction, ref_temp = 25.0
ViscosityExponent(temp, temp_coeff) ==
    FMul(FMul(temp_coeff, FSub(F(25, 0), temp)), F(10, 0))

calculate_viscosity(base_viscosity, temp, temp_coeff) ==
    LET visc_ref == FMul(base_viscosity, F(1, -3))
    IN FMul(visc_ref, FExp(ViscosityExponent(temp, temp_coeff)))

\* the velocity with its sign kept
calculate_stokes_velocity_signed(diameter_m, density_diff, viscosity, g_accel, sphericity) ==
    FDiv(FMul(FMul(FMul(FMul(diameter_m, diameter_m), density_diff),
                   g_accel), sphericity),
         FMul(F(18, 0), viscosity))

calculate_stokes_velocity(diameter_m, density_diff, viscosity, g_accel, sphericity) ==
    LET v == FDiv(FMul(FMul(FMul(FMul(diameter_m, diameter_m), density_diff),
                            g_accel), sphericity),
                  FMul(F(18, 0), viscosity))
    IN FAbs(v)

\* the hindrance factor with 1 + f/f_max in place of 1 - f/f_max
calculate_hindered_settling_plus(stokes_velocity, solids_fraction, max_packing, exponent) ==
    IF FGe(solids_fraction, max_packing) THEN Zero
    ELSE LET hindrance_factor ==
                 FPow(FAdd(One, FDiv(solids_fraction, max_packing)), exponent)
         IN FMul(stokes_velocity, hindrance_factor)

calculate_hindered_settling(stokes_velocity, solids_fraction, max_packing, exponent) ==
    IF FGe(solids_fraction, max_packing) THEN Zero
    ELSE LET hindrance_factor ==
                 FPow(FSub(One, FDiv(solids_fraction, max_packing)), exponent)
         IN FMul(stokes_velocity, hindrance_factor)

\* the isotherm without the guard on non-positive doses
calculate_langmuir_coverage_unguarded(dose_ppm, k, q_max) ==
    LET coverage ==
            FMul(FDiv(FMul(k, dose_ppm), FAdd(One, FMul(k, dose_ppm))), q_max)
    IN FMin(coverage, q_max)

calculate_langmuir_coverage(dose_ppm, k, q_max) ==
    IF FLe(dose_ppm, Zero) THEN Zero
    ELSE LET coverage ==
                 FMul(FDiv(FMul(k, dose_ppm), FAdd(One, FMul(k, dose_ppm))), q_max)
         IN FMin(coverage, q_max)

LangmuirK == F(5, -2)
LangmuirQMax == F(95, -2)

\* 100 / (1 + exp(-2.5 (sigma - 1)))
LogisticExponent(sigma) == FMul(F(-25, -1), FSub(sigma, One))

Logistic(sigma) ==
    FDiv(F(100, 0), FAdd(One, FExp(LogisticExponent(sigma))))

\* a floor of 0.01 m3/s in place of 0.001
ResidenceTimeWrongFloor(bowl_vol, feed_flow) ==
    LET flow_m3_s == FDiv(feed_flow, F(3600, 0))
    IN FDiv(bowl_vol, FMax(flow_m3_s, F(1, -2)))

\* step 6: flow in m3/s floored at 0.001, residence time in seconds
ResidenceTime(bowl_vol, feed_flow) ==
    LET flow_m3_s == FDiv(feed_flow, F(3600, 0))
    IN FDiv(bowl_vol, FMax(flow_m3_s, F(1, -3)))

OilCap == F(995, -1)
SolidsCap == F(999, -1)

\* step 9 with the sign of the slope flipped
TempFactorFalling(temperature) ==
    FSub(One, FMul(FSub(temperature, F(60, 0)), F(8, -3)))

\* step 9: higher temperature, better separation, anchored at 60 C
TempFactor(temperature) ==
    FAdd(One, FMul(FSub(temperature, F(60, 0)), F(8, -3)))

\* the upper clamp alone
ClampEfficiencyNoFloor(cap, product) == FMin(cap, product)

\* step 11: min(cap, max(0, product))
ClampEfficiency(cap, product) == FMin(cap, FMax(Zero, product))

\* the division guarded against a zero water output only
WaterQualityNonZero(oil_carryover, water_output, oil_density, water_density) ==
    IF water_output.m # 0
    THEN FMul(FMul(FDiv(oil_carryover, water_output), F(1, 6)),
              FDiv(oil_density, water_density))
    ELSE Zero

\* step 12: oil in water, ppm
WaterQuality(oil_carryover, water_output, oil_density, water_density) ==
    IF FGt(water_output, Zero)
    THEN FMul(FMul(FDiv(oil_carryover, water_output), F(1, 6)),
              FDiv(oil_density, water_density))
    ELSE Zero

\* the Result built from the computed values as they are
SeparationResultsUnrounded(l) ==
    [oil_efficiency |-> l.oil_efficiency,
     solids_efficiency |-> l.solids_efficiency,
     water_quality_ppm |-> l.water_quality,
     g_force |-> l.g_force,
     residence_time |-> l.residence_time,
     oil_settling_velocity |-> FMul(l.oil_v_hindered, F(1000, 0)),
     solids_settling_velocity |-> FMul(l.solids_v_hindered, F(1000, 0)),
     viscosity |-> FMul(l.viscosity, F(1000, 0))]

\* the SeparationResults record built from the locals at the return
SeparationResults(l) ==
    [oil_efficiency |-> FRound(l.oil_efficiency, 2),
     solids_efficiency |-> FRound(l.solids_efficiency, 2),
     water_quality_ppm |-> FRound(l.water_quality, 1),
     g_force |-> FRound(l.g_force, 0),
     residence_time |-> FRound(l.residence_time, 1),
     oil_settling_velocity |-> FMul(l.oil_v_hindered, F(1000, 0)),
     solids_settling_velocity |-> FMul(l.solids_v_hindered, F(1000, 0)),
     viscosity |-> FMul(l.viscosity, F(1000, 0))]

\* step 2: bowl radius in m, angular speed in rad/s, acceleration in m/s2
r(equipment) == FDiv(equipment.bowl_diameter, F(2000, 0))

omega(conditions) ==
    FDiv(FMul(FMul(conditions.bowl_speed, F(2, 0)), Pi), F(60, 0))

g_accel(equipment, conditions) ==
    FMul(FMul(omega(conditions), omega(conditions)), r(equipment))

\* step 3: water density adjusted for salinity
water_density_adj(feed) ==
    FAdd(feed.water_density, FMul(feed.salinity, F(7, -4)))

\* step 5: the solids fraction seen by the settling particles
total_solids(feed) ==
    FAdd(feed.solids_fraction, FMul(feed.oil_fraction, F(1, -1)))

\* step 6: bowl volume in m3 and effective radial distance in m
bowl_vol(equipment) ==
    FMul(FMul(FMul(Pi, r(equipment)), r(equipment)),
         FDiv(equipment.bowl_length, F(1000, 0)))

separation_dist(equipment) == FMul(r(equipment), F(3, -1))

\* step 8: chemical dosing effects
demulsifier_effect(feed) ==
    IF FGt(feed.demulsifier_dose, Zero)
    THEN FMul(feed.demulsifier_eff,
              calculate_langmuir_coverage(feed.demulsifier_dose,
                                          LangmuirK, LangmuirQMax))
    ELSE Zero

interfacial_factor(feed) == FDiv(feed.interfacial_tension, F(25, 0))

emulsion_factor(feed) ==
    FSub(One, FDiv(FMul(FMul(feed.emulsion_stability, F(3, -1)),
                        FSub(One, demulsifier_effect(feed))),
                   interfacial_factor(feed)))

flocculant_factor(feed) ==
    IF FGt(feed.flocculant_dose, Zero)
    THEN FAdd(One, FMul(FMul(feed.flocculant_eff,
                             FMin(One, FDiv(feed.flocculant_dose, F(50, 0)))),
                        F(2, -1)))
    ELSE One

\* step 10: higher flow, lower efficiency
flow_factor(conditions) ==
    FMax(F(6, -1),
         FSub(One, FMul(FSub(conditions.feed_flow, F(10, 0)), F(4, -2))))

(***************************************************************************)
(* calculate_separation_efficiency, step by step.  Each operator extends   *)
(* the record l of the locals computed so far; NoLocals stands for a call  *)
(* that math.exp ended with OverflowError.                                 *)
(***************************************************************************)
NoLocals == [raised |-> TRUE]

\* step 1: temperature-corrected viscosity
ViscosityLocals(feed, conditions) ==
    IF ExpRaises(ViscosityExponent(conditions.temperature,
                                   feed.viscosity_temp_coeff))
    THEN NoLocals
    ELSE [raised |-> FALSE,
          viscosity |-> calculate_viscosity(feed.oil_viscosity,
                            conditions.temperature, feed.viscosity_temp_coeff)]

\* steps 2-4: g-force and the Stokes velocities of the two phases
StokesLocals(feed, equipment, conditions, l) ==
    IF l.raised THEN l
    ELSE l @@
         [g_force |-> FDiv(g_accel(equipment, conditions), G),
          oil_v_stokes |->
              calculate_stokes_velocity(
                  FMul(feed.oil_droplet_d50, F(1, -6)),
                  FSub(water_density_adj(feed), feed.oil_density),
                  l.viscosity, g_accel(equipment, conditions),
                  feed.oil_sphericity),
          solids_v_stokes |->
              calculate_stokes_velocity(
                  FMul(feed.solids_d50, F(1, -6)),
                  FSub(feed.solids_density, water_density_adj(feed)),
                  l.viscosity, g_accel(equipment, conditions),
                  feed.solids_sphericity)]

\* step 5: hindered settling correction
HinderedLocals(feed, l) ==
    IF l.raised THEN l
    ELSE l @@
         [oil_v_hindered |->
              calculate_hindered_settling(l.oil_v_stokes, total_solids(feed),
                  feed.max_packing_fraction, feed.hindered_settling_exp),
          solids_v_hindered |->
              calculate_hindered_settling(l.solids_v_stokes, total_solids(feed),
                  feed.max_packing_fraction, feed.hindered_settling_exp)]

\* step 6: residence time
ResidenceLocals(equipment, conditions, l) ==
    IF l.raised THEN l
    ELSE l @@
         [bowl_vol |-> bowl_vol(equipment),
          residence_time |->
              ResidenceTime(bowl_vol(equipment), conditions.feed_flow)]

\* step 7: the separation numbers of the two phases
SigmaLocals(equipment, l) ==
    IF l.raised THEN l
    ELSE l @@
         [oil_sigma |-> FDiv(FMul(l.oil_v_hindered, l.residence_time),
                             separation_dist(equipment)),
          solids_sigma |-> FDiv(FMul(l.solids_v_hindered, l.residence_time),
                                separation_dist(equipment))]

\* step 7: base efficiencies, the logistic function of sigma
BaseLocals(l) ==
    IF l.raised THEN l
    ELSE IF \/ ExpRaises(LogisticExponent(l.oil_sigma))
            \/ ExpRaises(LogisticExponent(l.solids_sigma))
         THEN NoLocals
         ELSE l @@ [oil_eff_base |-> Logistic(l.oil_sigma),
                    solids_eff_base |-> Logistic(l.solids_sigma)]

\* steps 8-10: the correction factors
FactorLocals(feed, conditions, l) ==
    IF l.raised THEN l
    ELSE l @@ [emulsion_factor |-> emulsion_factor(feed),
               flocculant_factor |-> flocculant_factor(feed),
               temp_factor |-> TempFactor(conditions.temperature),
               flow_factor |-> flow_factor(conditions)]

\* step 11: the products that the clamps are applied to
ProductLocals(l) ==
    IF l.raised THEN l
    ELSE l @@
         [oil_product |->
              FMul(FMul(FMul(l.oil_eff_base, l.flow_factor),
                        l.emulsion_factor), l.temp_factor),
          solids_product |->
              FMul(FMul(FMul(l.solids_eff_base, l.flow_factor),
                        l.flocculant_factor), l.temp_factor)]

\* step 11: final efficiencies
EfficiencyLocals(l) ==
    IF l.raised THEN l
    ELSE l @@
         [oil_efficiency |-> ClampEfficiency(OilCap, l.oil_product),
          solids_efficiency |-> ClampEfficiency(SolidsCap, l.solids_product)]

\* step 12: the flows of oil and solids
RecoveryLocals(feed, conditions, l) ==
    IF l.raised THEN l
    ELSE l @@
         [oil_carryover |->
              FMul(FMul(conditions.feed_flow, feed.oil_fraction),
                   FSub(One, FDiv(l.oil_efficiency, F(100, 0)))),
          oil_recovered |->
              FMul(FMul(conditions.feed_flow, feed.oil_fraction),
                   FDiv(l.oil_efficiency, F(100, 0))),
          solids_recovered |->
              FMul(FMul(conditions.feed_flow, feed.solids_fraction),
                   FDiv(l.solids_efficiency, F(100, 0)))]

\* step 12: the water leaving the machine
OutputLocals(conditions, l) ==
    IF l.raised THEN l
    ELSE l @@
         [water_output |->
              FSub(FSub(conditions.feed_flow, l.oil_recovered),
                   l.solids_recovered)]

\* step 12: oil in water
QualityLocals(feed, l) ==
    IF l.raised THEN l
    ELSE l @@
         [water_quality |->
              WaterQuality(l.oil_carryover, l.water_output,
                           feed.oil_density, feed.water_density)]

\* the locals of calculate_separation_efficiency at its return, or NoLocals
\* when math.exp raised OverflowError on the way
SeparationLocals(feed, equipment, conditions) ==
    QualityLocals(feed,
      OutputLocals(conditions,
        RecoveryLocals(feed, conditions,
          EfficiencyLocals(
            ProductLocals(
              FactorLocals(feed, conditions,
                BaseLocals(
                  SigmaLocals(equipment,
                    ResidenceLocals(equipment, conditions,
                      HinderedLocals(feed,
                        StokesLocals(feed, equipment, conditions,
                          ViscosityLocals(feed, conditions))))))))))))

(***************************************************************************)
(* State: the three input records of the last call of                      *)
(* calculate_separation_efficiency, its locals at the return, the          *)
(* SeparationResults it returned, and the last call of each leaf function. *)
(* baseline and between are history variables: the Result of the first     *)
(* call made with the all-defaults records, and whether a call with other  *)
(* records was made since.                                                 *)
(***************************************************************************)
VARIABLES feed, equipment, conditions, locals, result, status,
          baseline, between, stk, hin, lang

vars ==
    <<feed, equipment, conditions, locals, result, status,
      baseline, between, stk, hin, lang>>

histVars == <<baseline, between>>

leafVars == <<stk, hin, lang>>

NoResult == [returned |-> FALSE]

\* run_validation_tests, Test 3: the Stokes velocity of a 25 micron droplet
StokesTest ==
    [diameter_m |-> F(25, -6), density_diff |-> F(100, 0),
     viscosity |-> F(1, -3), g_accel |-> F(1000, 0), sphericity |-> One]

StokesCall(a) ==
    [args |-> a,
     ret |-> calculate_stokes_velocity(a.diameter_m, a.density_diff,
                 a.viscosity, a.g_accel, a.sphericity)]

\* run_validation_tests, Test 4
HinderedTest ==
    [stokes_velocity |-> StokesCall(StokesTest).ret,
     solids_fraction |-> F(2, -1), max_packing |-> F(64, -2),
     exponent |-> F(465, -2)]

HinderedCall(a) ==
    [args |-> a,
     ret |-> calculate_hindered_settling(a.stokes_velocity, a.solids_fraction,
                 a.max_packing, a.exponent)]

\* run_validation_tests, Test 5
LangmuirCall(d) ==
    [dose_ppm |-> d,
     ret |-> calculate_langmuir_coverage(d, LangmuirK, LangmuirQMax)]

Init ==
    /\ feed = FeedProperties
    /\ equipment = EquipmentConfig
    /\ conditions = OperatingConditions
    /\ locals = NoLocals
    /\ result = NoResult
    /\ status = "idle"
    /\ baseline = NoResult
    /\ between = FALSE
    /\ stk = StokesCall(StokesTest)
    /\ hin = HinderedCall(HinderedTest)
    /\ lang = LangmuirCall(F(50, 0))

(***************************************************************************)
(* calculate_separation_efficiency(feed, equipment, conditions)            *)
(***************************************************************************)
\* <<temperature, bowl_speed>>
OperatingPoints ==
    {<<F(-3000, 0), F(3500, 0)>>, <<F(-200, 0), F(3500, 0)>>,
     <<F(60, 0), F(3500, 0)>>, <<F(65, 0), F(3500, 0)>>,
     <<F(65, 0), Zero>>}

FeedFlows == {F(-5, 0), Zero, F(36, -1), F(12, 0)}

\* <<emulsion_stability, interfacial_tension>>
Emulsions == {<<F(3, -1), F(25, 0)>>, <<One, F(5, 0)>>}

\* <<demulsifier_dose, flocculant_dose>>
Doses == {<<F(50, 0), Zero>>, <<Zero, F(100, 0)>>}

\* <<oil_fraction, solids_fraction>>
Fractions ==
    {<<F(20, -2), F(5, -2)>>, <<F(9, -1), F(3, -1)>>, <<F(-1, -1), F(5, -2)>>}

\* <<bowl_diameter, bowl_length>>
Bowls == {<<F(400, 0), F(1100, 0)>>, <<F(400, 0), F(-5, -2)>>}

\* a call that returns the previous Result when the conditions record is
\* the one of the previous call
CalculateCached(f, e, c) ==
    IF status = "returned" /\ c = conditions
    THEN /\ feed' = f
         /\ equipment' = e
         /\ conditions' = c
         /\ UNCHANGED <<locals, result, status>>
    ELSE \E l \in {SeparationLocals(f, e, c)} :
            /\ feed' = f
            /\ equipment' = e
            /\ conditions' = c
            /\ locals' = l
            /\ result' = IF l.raised THEN NoResult ELSE SeparationResults(l)
            /\ status' = IF l.raised THEN "raised" ELSE "returned"

\* one call: the records passed, the locals at the return and the Result
Calculate(f, e, c) ==
    \E l \in {SeparationLocals(f, e, c)} :
       /\ feed' = f
       /\ equipment' = e
       /\ conditions' = c
       /\ locals' = l
       /\ result' = IF l.raised THEN NoResult ELSE SeparationResults(l)
       /\ status' = IF l.raised THEN "raised" ELSE "returned"

\* run_validation_tests, Test 6: the all-defaults records
RunDefaults ==
    /\ Calculate(FeedProperties, EquipmentConfig, OperatingConditions)
    /\ UNCHANGED <<histVars, leafVars>>

SetOperatingPoint ==
    \E op \in OperatingPoints :
        /\ Calculate(feed, equipment,
                     [conditions EXCEPT !.temperature = op[1],
                                        !.bowl_speed = op[2]])
        /\ UNCHANGED <<histVars, leafVars>>

SetFeedFlow ==
    \E q \in FeedFlows :
        /\ Calculate(feed, equipment, [conditions EXCEPT !.feed_flow = q])
        /\ UNCHANGED <<histVars, leafVars>>

SetEmulsion ==
    \E em \in Emulsions :
        /\ Calculate([feed EXCEPT !.emulsion_stability = em[1],
                                  !.interfacial_tension = em[2]],
                     equipment, conditions)
        /\ UNCHANGED <<histVars, leafVars>>

SetDoses ==
    \E d \in Doses :
        /\ Calculate([feed EXCEPT !.demulsifier_dose = d[1],
                                  !.flocculant_dose = d[2]],
                     equipment, conditions)
        /\ UNCHANGED <<histVars, leafVars>>

SetFractions ==
    \E fr \in Fractions :
        /\ Calculate([feed EXCEPT !.oil_fraction = fr[1],
                                  !.solids_fraction = fr[2]],
                     equipment, conditions)
        /\ UNCHANGED <<histVars, leafVars>>

SetBowl ==
    \E b \in Bowls :
        /\ Calculate(feed, [equipment EXCEPT !.bowl_diameter = b[1],
                                             !.bowl_length = b[2]],
                     conditions)
        /\ UNCHANGED <<histVars, leafVars>>

Next ==
    \/ RunDefaults
    \/ SetOperatingPoint
    \/ SetFeedFlow
    \/ SetEmulsion
    \/ SetDoses
    \/ SetFractions
    \/ SetBowl

Spec == Init /\ [][Next]_vars

(***************************************************************************)
(* Repeated calls, with the Result of the first all-defaults call kept.    *)
(***************************************************************************)
Track ==
    LET defaults == /\ feed' = FeedProperties
                    /\ equipment' = EquipmentConfig
                    /\ conditions' = OperatingConditions
    IN /\ baseline' = IF baseline = NoResult /\ status' = "returned" /\ defaults
                      THEN result' ELSE baseline
       /\ between' = (between \/ (baseline # NoResult /\ ~defaults))

RepeatDefaults ==
    /\ Calculate(FeedProperties, EquipmentConfig, OperatingConditions)
    /\ Track
    /\ UNCHANGED leafVars

RepeatOperatingPoint ==
    \E op \in OperatingPoints :
        /\ Calculate(feed, equipment,
                     [conditions EXCEPT !.temperature = op[1],
                                        !.bowl_speed = op[2]])
        /\ Track
        /\ UNCHANGED leafVars

RepeatFeedFlow ==
    \E q \in FeedFlows :
        /\ Calculate(feed, equipment, [conditions EXCEPT !.feed_flow = q])
        /\ Track
        /\ UNCHANGED leafVars

RepeatDoses ==
    \E d \in Doses :
        /\ Calculate([feed EXCEPT !.demulsifier_dose = d[1],
                                  !.flocculant_dose = d[2]],
                     equipment, conditions)
        /\ Track
        /\ UNCHANGED leafVars

RepeatFractions ==
    \E fr \in Fractions :
        /\ Calculate([feed EXCEPT !.oil_fraction = fr[1],
                                  !.solids_fraction = fr[2]],
                     equipment, conditions)
        /\ Track
        /\ UNCHANGED leafVars

NextRepeat ==
    \/ RepeatDefaults
    \/ RepeatOperatingPoint
    \/ RepeatFeedFlow
    \/ RepeatDoses
    \/ RepeatFractions

SpecRepeat == Init /\ [][NextRepeat]_vars

(***************************************************************************)
(* Calls of the leaf functions, one argument changed at a time.            *)
(***************************************************************************)
MaxDensitySteps == 3
MaxFractionSteps == 9
MaxDoseExp == 3

StokesDiameters == {F(25, -6), F(80, -6), Zero, F(-25, -6)}

DensityDiffs == {F(d * 50, 0) : d \in -MaxDensitySteps..MaxDensitySteps}

StokesViscosities == {F(1, -3), F(227, -8), F(-1, -3)}

Accelerations == {F(1000, 0), F(2686, 1), Zero, F(-981, -2)}

Sphericities == {One, F(8, -1), F(-5, -1)}

StokesStep(a) ==
    /\ stk' = StokesCall(a)
    /\ UNCHANGED <<feed, equipment, conditions, locals, result, status,
                   histVars, hin, lang>>

StokesSetDiameter ==
    \E d \in StokesDiameters : StokesStep([stk.args EXCEPT !.diameter_m = d])

StokesSetDensityDiff ==
    \E d \in DensityDiffs : StokesStep([stk.args EXCEPT !.density_diff = d])

StokesSetViscosity ==
    \E mu \in StokesViscosities : StokesStep([stk.args EXCEPT !.viscosity = mu])

StokesSetAcceleration ==
    \E g \in Accelerations : StokesStep([stk.args EXCEPT !.g_accel = g])

StokesSetSphericity ==
    \E phi \in Sphericities : StokesStep([stk.args EXCEPT !.sphericity = phi])

NextStokes ==
    \/ StokesSetDiameter
    \/ StokesSetDensityDiff
    \/ StokesSetViscosity
    \/ StokesSetAcceleration
    \/ StokesSetSphericity

SpecStokes == Init /\ [][NextStokes]_vars

HinderedVelocities == {Zero, HinderedTest.stokes_velocity, F(553, -1)}

HinderedFractions ==
    {F(i * 8, -2) : i \in -MaxFractionSteps..MaxFractionSteps}

Packings == {F(64, -2), F(32, -2), One}

Exponents == {F(465, -2), One, F(5, -1), F(2, 0)}

HinderedStep(a) ==
    /\ hin' = HinderedCall(a)
    /\ UNCHANGED <<feed, equipment, conditions, locals, result, status,
                   histVars, stk, lang>>

HinderedSetVelocity ==
    \E v \in HinderedVelocities :
        HinderedStep([hin.args EXCEPT !.stokes_velocity = v])

HinderedSetFraction ==
    \E f \in HinderedFractions :
        HinderedStep([hin.args EXCEPT !.solids_fraction = f])

HinderedSetPacking ==
    \E mp \in Packings : HinderedStep([hin.args EXCEPT !.max_packing = mp])

HinderedSetExponent ==
    \E n \in Exponents : HinderedStep([hin.args EXCEPT !.exponent = n])

NextHindered ==
    \/ HinderedSetVelocity
    \/ HinderedSetFraction
    \/ HinderedSetPacking
    \/ HinderedSetExponent

SpecHindered == Init /\ [][NextHindered]_vars

\* significands of the doses; neighbours 1499 and 1500 included
DoseMantissas == {1000, 1499, 1500, 2500, 5000, 7500, 9999}

LangmuirDoses ==
    {Zero} \cup {[m |-> sg * m, e |-> e] :
                     sg \in {-1, 1}, m \in DoseMantissas, e \in (-4)..MaxDoseExp}

LangmuirSetDose ==
    \E d \in LangmuirDoses :
        /\ lang' = LangmuirCall(d)
        /\ UNCHANGED <<feed, equipment, conditions, locals, result, status,
                       histVars, stk, hin>>

NextLangmuir == LangmuirSetDose

SpecLangmuir == Init /\ [][NextLangmuir]_vars

(***************************************************************************)
(* Properties of calculate_separation_efficiency.                          *)
(***************************************************************************)
Returned == status = "returned"

AllDefaults ==
    /\ feed = FeedProperties
    /\ equipment = EquipmentConfig
    /\ conditions = OperatingConditions

\* C1: every Result returned has 0 <= oil_efficiency <= 99.5 and
\* 0 <= solids_efficiency <= 99.9, before and after the rounding applied
\* when the Result is built, whatever the sign and size of the product of
\* the correction factors.
C1_EfficienciesWithinCaps ==
    Returned =>
        /\ FLe(Zero, locals.oil_efficiency) /\ FLe(locals.oil_efficiency, OilCap)
        /\ FLe(Zero, locals.solids_efficiency)
        /\ FLe(locals.solids_efficiency, SolidsCap)
        /\ FLe(Zero, result.oil_efficiency) /\ FLe(result.oil_efficiency, OilCap)
        /\ FLe(Zero, result.solids_efficiency)
        /\ FLe(result.solids_efficiency, SolidsCap)

\* a negative oil product clamped to 0 with a solids product above its cap
C1_Witness ==
    /\ Returned
    /\ FLt(locals.oil_product, Zero) /\ result.oil_efficiency = Zero
    /\ FGt(locals.solids_product, SolidsCap)
    /\ result.solids_efficiency = SolidsCap

\* C2: on the all-defaults records the Result has oil_efficiency > 80 and
\* water_quality_ppm < 100 (run_validation_tests, Test 6).
C2_DefaultsPassValidation ==
    (Returned /\ AllDefaults) =>
        /\ FGt(result.oil_efficiency, F(80, 0))
        /\ FLt(result.water_quality_ppm, F(100, 0))

\* a step between two returned calls that raises the temperature and
\* changes nothing else
TemperatureRaised ==
    /\ Returned /\ status' = "returned"
    /\ feed' = feed /\ equipment' = equipment
    /\ conditions'.feed_flow = conditions.feed_flow
    /\ conditions'.bowl_speed = conditions.bowl_speed
    /\ FLe(conditions.temperature, conditions'.temperature)

C8_ResultAtFullPrecision ==
    Returned =>
        /\ result.oil_efficiency = locals.oil_efficiency
        /\ result.solids_efficiency = locals.solids_efficiency
        /\ result.water_quality_ppm = locals.water_quality
        /\ result.g_force = locals.g_force
        /\ result.residence_time = locals.residence_time

\* C8 amended: the Result carries oil_efficiency and solids_efficiency (the
\* clamped products) rounded to 2 decimals, water_quality_ppm and
\* residence_time rounded to 1 decimal and g_force rounded to an integer;
\* the settling velocities and the viscosity are carried unrounded, times
\* 1000.
C8_ResultRounded ==
    Returned =>
        /\ locals.oil_efficiency = FMin(OilCap, FMax(Zero, locals.oil_product))
        /\ locals.solids_efficiency =
               FMin(SolidsCap, FMax(Zero, locals.solids_product))
        /\ result.oil_efficiency = FRound(locals.oil_efficiency, 2)
        /\ result.solids_efficiency = FRound(locals.solids_efficiency, 2)
        /\ result.water_quality_ppm = FRound(locals.water_quality, 1)
        /\ result.g_force = FRound(locals.g_force, 0)
        /\ result.residence_time = FRound(locals.residence_time, 1)
        /\ result.oil_settling_velocity = FMul(locals.oil_v_hindered, F(1000, 0))
        /\ result.solids_settling_velocity =
               FMul(locals.solids_v_hindered, F(1000, 0))
        /\ result.viscosity = FMul(locals.viscosity, F(1000, 0))

\* a Result whose residence_time and oil_efficiency differ from the
\* computed values
C8_Witness ==
    /\ Returned
    /\ result.residence_time # locals.residence_time
    /\ result.oil_efficiency # locals.oil_efficiency

\* C9: the water quality is 0 when water_output = feed_flow - oil_recovered
\* - solids_recovered is <= 0, and (oil_carryover / water_output) * 1e6 *
\* (oil_density / water_density) otherwise; it is >= 0 when oil_fraction and
\* feed_flow are >= 0 and the densities positive.
C9_WaterQualityGuarded ==
    Returned =>
        /\ locals.water_output =
               FSub(FSub(conditions.feed_flow, locals.oil_recovered),
                    locals.solids_recovered)
        /\ FLe(locals.water_output, Zero) => locals.water_quality = Zero
        /\ FGt(locals.water_output, Zero) =>
               locals.water_quality =
                   FMul(FMul(FDiv(locals.oil_carryover, locals.water_output),
                             F(1, 6)),
                        FDiv(feed.oil_density, feed.water_density))
        /\ (/\ FGe(feed.oil_fraction, Zero) /\ FGe(conditions.feed_flow, Zero)
            /\ FGt(feed.oil_density, Zero) /\ FGt(feed.water_density, Zero))
               => FGe(locals.water_quality, Zero)

\* a positive feed flow with a negative water output, and water quality 0
C9_Witness ==
    /\ Returned
    /\ FGt(conditions.feed_flow, Zero)
    /\ FLt(locals.water_output, Zero)
    /\ locals.water_quality = Zero /\ result.water_quality_ppm = Zero

\* C10: the residence time is bowl_vol / max(feed_flow / 3600, 0.001), the
\* same for every feed flow <= 3.6 m3/h; for a bowl of positive diameter
\* and length it is positive, at most bowl_vol / 0.001, and no larger at a
\* larger feed flow.
C10_ResidenceTimeFloored ==
    Returned =>
        /\ locals.residence_time =
               FDiv(locals.bowl_vol,
                    FMax(FDiv(conditions.feed_flow, F(3600, 0)), F(1, -3)))
        /\ FLe(conditions.feed_flow, F(36, -1)) =>
               locals.residence_time = FDiv(locals.bowl_vol, F(1, -3))
        /\ (FGt(equipment.bowl_diameter, Zero)
              /\ FGt(equipment.bowl_length, Zero)) =>
               /\ FGt(locals.residence_time, Zero)
               /\ FLe(locals.residence_time, FDiv(locals.bowl_vol, F(1, -3)))
               /\ \A q \in FeedFlows :
                      FLe(conditions.feed_flow, q) =>
                          FLe(ResidenceTime(locals.bowl_vol, q),
                              locals.residence_time)

\* a negative feed flow with the residence time of the floor
C10_Witness ==
    /\ Returned
    /\ FLt(conditions.feed_flow, Zero)
    /\ locals.residence_time = FDiv(locals.bowl_vol, F(1, -3))
    /\ FGt(locals.bowl_vol, Zero)

Coverage(d) == calculate_langmuir_coverage(d, LangmuirK, LangmuirQMax)

RoundingSlack == F(1005, -3)

C6_StokesNonNegativeEven ==
    /\ FGe(stk.ret, Zero)
    /\ stk.ret = calculate_stokes_velocity(stk.args.diameter_m,
                     FNeg(stk.args.density_diff), stk.args.viscosity,
                     stk.args.g_accel, stk.args.sphericity)

\* a negative density difference with a positive velocity
C6_Witness ==
    FLt(stk.args.density_diff, Zero) /\ FGt(stk.ret, Zero)
====
